---- MODULE Spec2Model ----
(***************************************************************************)
(* A model of the LIDAR-Lite v2 driver (package lidar, lidar.go).          *)
(*                                                                         *)
(* The driver is sequential code over an injected i2c bus.  Every action   *)
(* of this model is one blocking step of the code (one bus transaction,    *)
(* or one time.Sleep) together with all the local computation that         *)
(* follows it up to the next blocking step.  The bus and the device are    *)
(* the environment: a bus transaction may fail with a transport error,     *)
(* takes 0..MaxBusLatency ticks, and the read-only device registers        *)
(* (status, health detail, distance, velocity) read as any value of a      *)
(* small set.  One tick is the initial backoff of waitReadyStatus          *)
(* (time.Millisecond).                                                     *)
(***************************************************************************)
EXTENDS Integers, Sequences, FiniteSets, TLC

\* ------------------------------------------------------------------ bounds
\* Lidar.WaitTimeout, in ticks (the code's default is 2 s).
WaitTimeout == 2
\* A bus transaction takes between 0 and MaxBusLatency ticks.
MaxBusLatency == 1
\* The bus layer has this many distinct transport errors.
NumBusErrors == 2

\* --------------------------------------------------------- program constants
customAcquisitionInterval == 32
velocityModeEnabled == 128
modeControlRegister == 4
defaultIntervalValue == 200
minIntervalValue == 2
maxIntervalValue == 255
Millisecond == 1000000
\* A time.Duration, an int64 count of nanoseconds: high * 2^62 + ns, with
\* high in -2..1 and ns small, so that durations near either end of the
\* int64 range can be written down.
Duration(high, ns) == [high |-> high, ns |-> ns]
DefaultAcquisitionInterval == Duration(0, (defaultIntervalValue \div 2) * Millisecond)
InfiniteAcquisitions == 255

\* GetStatus() bits
\* As Busy, had the flag been taken for bit 4.
BusyBit4 == 2 ^ 4
Busy == 1
SignalNotDetected == 8
SecondReturn == 16
Healthy == 32
ErrorDetected == 64

\* Registers the driver addresses.
commandRegister == 0
statusRegister == 1
velocityRegister == 9
countRegister == 17
intervalRegister == 69
healthRegister == 72
sleepRegister == 101
distanceRegister == 143

Threads == {1, 2}

\* ------------------------------------------------------------ byte helpers
\* (b & mask) != 0 for a single-bit mask.
HasBit(b, mask) == (b \div mask) % 2 = 1
\* b | mask for a single-bit mask.
SetBit(b, mask) == IF HasBit(b, mask) THEN b ELSE b + mask
\* b &^ mask for a single-bit mask.
ClearBit(b, mask) == IF HasBit(b, mask) THEN b - mask ELSE b
\* Go's integer division truncates toward zero.
GoDiv(a, b) == IF a >= 0 THEN a \div b ELSE -((-a) \div b)
\* byte(x) of a non-negative integer.
ToByte(x) == x % 256

\* ------------------------------------------------------------------ errors
\* An error value: its kind and, for a transport error, the bus layer's
\* code; for a HealthError, the healthFlags byte.
Nil == [kind |-> "nil", info |-> 0]
TransportError(c) == [kind |-> "transport", info |-> c]
TimeoutError == [kind |-> "timeout", info |-> 0]
HealthError(flags) == [kind |-> "health", info |-> flags]
MeasurementError == [kind |-> "measurement", info |-> 0]
SignalError == [kind |-> "signal", info |-> 0]
RangeError == [kind |-> "range", info |-> 0]

BusErrors == {TransportError(c) : c \in 1..NumBusErrors}

\* ------------------------------------------------------------- environment
\* Status bytes the device may report: every combination of the four bits
\* the driver tests, and four bytes with other bits set.
StatusValues ==
    {s \in 0..255 : ~HasBit(s, 2) /\ ~HasBit(s, 4) /\ ~HasBit(s, SecondReturn)
                        /\ ~HasBit(s, 128)}
        \cup {SecondReturn, 134, 166, 255}
HealthFlagValues == {0, 2, 8, 12}
DistanceValues == {0, 300, 65535}
RawVelocityValues == {0, 1, 127, 128, 255}
\* Control register contents of the device when the handle is constructed.
InitialControlValues == {0, 40}
\* Register contents of a device the mode setters are tried on: the
\* custom-interval bit clear, an interval register value the driver never
\* writes, a count no mode setter of the model leaves.
ModeControls == {0, 137}
ModeIntervalRegisters == {1}
ModeCounts == {7}
\* Durations (ns) callers pass as interval or window.
Intervals ==
    {DefaultAcquisitionInterval}
        \cup {Duration(0, ns) : ns \in {-1000000, 999999, 1000000, 127999999, 128000000}}
        \cup {Duration(-2, 1000000), Duration(1, 1000000)}
Totals == {1, InfiniteAcquisitions}

ModeOps == {"SetDistanceOnlyMode", "SetContinuousMode", "SetDistanceAndVelocityMode"}
\* The operations that make one pass over the bus, and the retry loop.
PrimitiveOps == ModeOps \cup {"Acquire", "ReadDistance", "ReadVelocity",
                              "Reset", "Wake", "Sleep"}
Ops == PrimitiveOps \cup {"GetDistance"}

VARIABLES
    dev,   \* the device's writable registers: control, interval, count
    th,    \* per calling thread: position in the code and its locals
    bus    \* transactions since the latest call began: last, wrote, reads

vars == <<dev, th, bus>>

\* polled: the byte every status poll of the current waitReadyStatus has
\* returned so far, NotPolled before the first poll, Unsteady once a poll
\* failed or two polls differed.
NotPolled == -1
Unsteady == -2

NoOp == [thread |-> 0, kind |-> "none", reg |-> 0, val |-> 0, err |-> Nil]
\* The bus log of a handle NewLidar has just returned: nothing on the bus,
\* and no operation called yet.
NewHandle ==
    [last |-> [thread |-> 0, kind |-> "new", reg |-> 0, val |-> 0, err |-> Nil],
     wrote |-> {}, reads |-> {}]

IdleThread ==
    [pc |-> "idle", op |-> "none", frame |-> "none",
     interval |-> Duration(0, 0), total |-> 0, stab |-> FALSE,
     control |-> 0, scale |-> 0, status |-> 0,
     backoff |-> 0, waitElapsed |-> 0, polled |-> NotPolled, gdElapsed |-> 0,
     waitErr |-> Nil, healthError |-> Nil,
     value |-> 0, err |-> Nil]

\* NewLidar: the handle is built without touching the device.
Init ==
    /\ dev \in [control : InitialControlValues,
                interval : {defaultIntervalValue},
                count : {0}]
    /\ th = [t \in Threads |-> IdleThread]
    /\ bus = NewHandle

\* ------------------------------------------------------- bus transactions
\* What a read of reg may return on success.
DevRead(reg) ==
    CASE reg = statusRegister -> StatusValues
      [] reg = modeControlRegister -> {dev.control}
      [] reg = intervalRegister -> {dev.interval}
      [] reg = countRegister -> {dev.count}
      [] reg = healthRegister -> HealthFlagValues
      [] reg = distanceRegister -> DistanceValues
      [] reg = velocityRegister -> RawVelocityValues
      [] OTHER -> {0}

\* The byte that comes with the error of a failed read is the bus
\* implementation's choice.  The driver uses it in one place only, the read
\* of register 0x48 whose error it discards; everywhere else it is dropped
\* with the error, and is written 0.
FailedReadValues(reg) == IF reg = healthRegister THEN {0, 2} ELSE {0}

\* The outcomes of ReadByteFromReg / ReadWordFromReg: a value and a nil
\* error, or a transport error and the byte that comes with it.
ReadResults(reg) ==
    {[val |-> v, err |-> Nil] : v \in DevRead(reg)}
        \cup {[val |-> v, err |-> e] : v \in FailedReadValues(reg), e \in BusErrors}

\* The outcomes of WriteByteToReg.
WriteResults == {Nil} \cup BusErrors

\* Reset re-loads the FPGA: all registers return to their defaults.
DeviceDefaults == [control |-> 0, interval |-> defaultIntervalValue, count |-> 0]

\* The device after a write of val to reg that returned err.
DevWrite(reg, val, err) ==
    IF err # Nil THEN dev
    ELSE CASE reg = modeControlRegister -> [dev EXCEPT !.control = val]
           [] reg = intervalRegister -> [dev EXCEPT !.interval = val]
           [] reg = countRegister -> [dev EXCEPT !.count = val]
           [] reg = commandRegister /\ val = 0 -> DeviceDefaults
           [] OTHER -> dev

LogRead(t, reg, r) ==
    [last |-> [thread |-> t, kind |-> "read", reg |-> reg, val |-> r.val, err |-> r.err],
     wrote |-> bus.wrote, reads |-> bus.reads \cup {reg}]

LogWrite(t, reg, val, err) ==
    [last |-> [thread |-> t, kind |-> "write", reg |-> reg, val |-> val, err |-> err],
     wrote |-> bus.wrote \cup {reg}, reads |-> bus.reads]

\* ---------------------------------------------------------------- time
\* time.Since(startedAt) of waitReadyStatus and of GetDistance grow by d
\* for every thread that is inside one.  waitElapsed and backoff outlive the
\* return of waitReadyStatus by one step only: they are its locals.
Elapse(s, d) ==
    [s EXCEPT !.waitElapsed = IF s.pc \in {"poll", "sleep"} THEN @ + d ELSE 0,
              !.backoff = IF s.pc \in {"poll", "sleep"} THEN @ ELSE 0,
              !.gdElapsed = IF s.op = "GetDistance" /\ s.pc \notin {"idle", "done"}
                            THEN @ + d ELSE @]

Latencies == 0..MaxBusLatency

\* ------------------------------------------------------- control flow
Done(s, value, err) == [s EXCEPT !.pc = "done", !.value = value, !.err = err]

\* Entry of waitReadyStatus, called from frame.
waitReadyStatus(s, frame) ==
    [s EXCEPT !.pc = "poll", !.frame = frame, !.backoff = 1, !.waitElapsed = 0,
              !.polled = NotPolled, !.status = 0, !.waitErr = Nil,
              !.healthError = Nil]

\* As GetDistanceLoop, had the loop no deadline test.
GetDistanceLoopForever(s) == waitReadyStatus(s, "Acquire")

\* The loop test of GetDistance after a failed attempt.
GetDistanceLoop(s) ==
    IF s.gdElapsed >= WaitTimeout THEN Done(s, s.value, s.err)
    ELSE waitReadyStatus(s, "Acquire")

\* As ReadDistanceReturn, had GetDistance taken a value that comes with a
\* HealthError for a result.
ReadDistanceReturnSoftOk(s, value, err) ==
    IF s.op = "GetDistance"
    THEN IF err = Nil \/ err.kind = "health" THEN Done(s, value, err)
         ELSE GetDistanceLoop([s EXCEPT !.value = value, !.err = err])
    ELSE Done(s, value, err)

\* ReadDistance returned (value, err) to its caller.
ReadDistanceReturn(s, value, err) ==
    IF s.op = "GetDistance"
    THEN IF err = Nil THEN Done(s, value, err)
         ELSE GetDistanceLoop([s EXCEPT !.value = value, !.err = err])
    ELSE Done(s, value, err)

\* Acquire returned err to its caller.
AcquireReturn(s, err) ==
    IF s.op = "GetDistance"
    THEN IF err = Nil THEN waitReadyStatus([s EXCEPT !.err = err], "ReadDistance")
         ELSE GetDistanceLoop([s EXCEPT !.err = err])
    ELSE Done(s, 0, err)

\* As waitAcquisitionReadyErr, had the Healthy test come last.
waitAcquisitionReadyErrHealthLast(status, healthFlags) ==
    LET e1 == IF HasBit(status, ErrorDetected) THEN MeasurementError ELSE Nil
        e2 == IF HasBit(status, SignalNotDetected) THEN SignalError ELSE e1
        e3 == IF ~HasBit(status, Healthy) THEN HealthError(healthFlags) ELSE e2
    IN e3

\* The error waitAcquisitionReady makes of a non-busy status.
waitAcquisitionReadyErr(status, healthFlags) ==
    LET e1 == IF ~HasBit(status, Healthy) THEN HealthError(healthFlags) ELSE Nil
        e2 == IF HasBit(status, ErrorDetected) THEN MeasurementError ELSE e1
        e3 == IF HasBit(status, SignalNotDetected) THEN SignalError ELSE e2
    IN e3

IsHealthError(e) == e.kind = "health"

\* As waitAcquisitionReadyReturn, had the callers treated a HealthError
\* like any other error.
waitAcquisitionReadyReturnStrict(s, herr) ==
    LET s1 == [s EXCEPT !.healthError = herr]
    IN IF herr # Nil
       THEN IF s.frame = "ReadDistance" THEN ReadDistanceReturn(s1, 0, herr)
            ELSE Done(s1, 0, herr)
       ELSE IF s.frame = "ReadDistance" THEN [s1 EXCEPT !.pc = "rd_word"]
            ELSE [s1 EXCEPT !.pc = "rv_control"]

\* As waitAcquisitionReadyReturn, had the callers gone on to read the
\* measurement whatever the error.
waitAcquisitionReadyReturnAlwaysRead(s, herr) ==
    LET s1 == [s EXCEPT !.healthError = herr]
    IN IF s.frame = "ReadDistance" THEN [s1 EXCEPT !.pc = "rd_word"]
       ELSE [s1 EXCEPT !.pc = "rv_control"]

\* waitAcquisitionReady returned herr to ReadDistance or ReadVelocity.
waitAcquisitionReadyReturn(s, herr) ==
    LET s1 == [s EXCEPT !.healthError = herr]
    IN IF herr # Nil /\ ~IsHealthError(herr)
       THEN IF s.frame = "ReadDistance" THEN ReadDistanceReturn(s1, 0, herr)
            ELSE Done(s1, 0, herr)
       ELSE IF s.frame = "ReadDistance" THEN [s1 EXCEPT !.pc = "rd_word"]
            ELSE [s1 EXCEPT !.pc = "rv_control"]

\* waitReadyStatus returned (status, err) to the frame that called it.
waitReadyStatusReturn(s, status, err) ==
    LET s1 == [s EXCEPT !.waitErr = err,
                        !.status = IF s.frame \in {"Acquire", "Reset"} THEN 0
                                   ELSE status]
    IN CASE s.frame = "Acquire" ->
              IF err # Nil THEN AcquireReturn(s1, err)
              ELSE [s1 EXCEPT !.pc = "acquire_command"]
         [] s.frame = "Reset" -> Done(s1, 0, err)
         [] OTHER ->
              IF err # Nil THEN waitAcquisitionReadyReturn(s1, err)
              ELSE IF ~HasBit(status, Healthy) THEN [s1 EXCEPT !.pc = "health"]
              ELSE waitAcquisitionReadyReturn(s1, waitAcquisitionReadyErr(status, 0))

\* ------------------------------------------------------------- actions
\* A caller invokes a public operation on the handle.
Start(op, interval, total, stab) ==
    LET s == [IdleThread EXCEPT !.op = op, !.interval = interval,
                                !.total = total, !.stab = stab]
    IN CASE op \in ModeOps -> [s EXCEPT !.pc = "sai_read"]
         [] op = "Acquire" -> waitReadyStatus(s, "Acquire")
         [] op = "ReadDistance" -> waitReadyStatus(s, "ReadDistance")
         [] op = "ReadVelocity" -> waitReadyStatus(s, "ReadVelocity")
         [] op = "GetDistance" -> [s EXCEPT !.pc = "gd_count", !.stab = TRUE]
         [] op = "Sleep" -> [s EXCEPT !.pc = "sleep_write"]
         [] OTHER -> [s EXCEPT !.pc = "wake_status"]

Call(t, ops, intervals) ==
    /\ th[t].pc = "idle"
    /\ \E op \in ops :
         \E interval \in (IF op \in ModeOps \ {"SetDistanceOnlyMode"}
                          THEN intervals ELSE {DefaultAcquisitionInterval}) :
           \E total \in (IF op = "SetContinuousMode" THEN Totals ELSE {0}) :
             \E stab \in (IF op = "Acquire" THEN BOOLEAN ELSE {FALSE}) :
               th' = [th EXCEPT ![t] = Start(op, interval, total, stab)]
    /\ bus' = [last |-> NoOp, wrote |-> {}, reads |-> {}]
    /\ UNCHANGED dev

\* The operation's results are handed to the caller; its locals are gone.
Return(t) ==
    /\ th[t].pc = "done"
    /\ th' = [th EXCEPT ![t] = IdleThread]
    /\ bus' = [last |-> NoOp, wrote |-> {}, reads |-> {}]
    /\ UNCHANGED dev

\* Thread t made a step that took d ticks and left it as s.
Step(t, d, s) == [u \in Threads |-> IF u = t THEN s ELSE Elapse(th[u], d)]

\* Thread t, at pc, reads reg and the bus returns r.
BusRead(t, pc, reg, r) ==
    /\ th[t].pc = pc
    /\ bus' = LogRead(t, reg, r)
    /\ UNCHANGED dev

\* Thread t, at pc, writes val to reg and the bus returns err.
BusWrite(t, pc, reg, val, err) ==
    /\ th[t].pc = pc
    /\ bus' = LogWrite(t, reg, val, err)
    /\ dev' = DevWrite(reg, val, err)

\* --- setAcquisitionInterval, setAcquisitionCount and the three mode setters
velocity(s) == s.op = "SetDistanceAndVelocityMode"
\* A quotient of magnitude near 2^63 / 1000000: it is written Far, of
\* which the code uses only the sign and that it is no byte.
Far == 2 ^ 30
\* interval.Nanoseconds() * 2 / 1000000 in int64: the product wraps modulo
\* 2^64, so high * 2^63 is 0 for an even high and -2^63 for an odd one.
translatedInterval(interval) ==
    IF interval.high % 2 = 0 THEN GoDiv(interval.ns * 2, 1000000)
    ELSE IF interval.ns >= 0 THEN -Far ELSE Far

\* As IntervalInRange, had the code tested the upper limit only.
IntervalInRangeUpperOnly(translated) == ~(translated > maxIntervalValue)

IntervalInRange(translated) ==
    ~(translated < minIntervalValue \/ translated > maxIntervalValue)

\* As DefaultControl, had the custom-interval bit been left as read.
DefaultControlKeepBit(control) == control

\* The byte written to the control register on the default-interval path.
DefaultControl(control) == ClearBit(control, customAcquisitionInterval)

\* As CustomControl, had the byte been built from the two mode bits alone.
CustomControlOnlyFlags(control) ==
    IF HasBit(control, velocityModeEnabled)
    THEN velocityModeEnabled + customAcquisitionInterval
    ELSE customAcquisitionInterval

\* The byte written to the control register on the custom-interval path.
CustomControl(control) == SetBit(control, customAcquisitionInterval)

\* As setAcquisitionIntervalAfterRead, had the custom path written the
\* control register without writing the interval register first.
setAcquisitionIntervalAfterReadControlFirst(s, r) ==
    IF r.err # Nil THEN Done(s, 0, r.err)
    ELSE LET control == IF velocity(s) THEN SetBit(r.val, velocityModeEnabled)
                        ELSE ClearBit(r.val, velocityModeEnabled)
             s1 == [s EXCEPT !.control = control]
         IN IF s.interval = DefaultAcquisitionInterval
            THEN [s1 EXCEPT !.pc = "sai_write_default"]
            ELSE IF ~IntervalInRange(translatedInterval(s.interval))
                 THEN Done(s1, 0, RangeError)
                 ELSE [s1 EXCEPT !.pc = "sai_write_custom"]

\* After the control register read of setAcquisitionInterval.
setAcquisitionIntervalAfterRead(s, r) ==
    IF r.err # Nil THEN Done(s, 0, r.err)
    ELSE LET control == IF velocity(s) THEN SetBit(r.val, velocityModeEnabled)
                        ELSE ClearBit(r.val, velocityModeEnabled)
             s1 == [s EXCEPT !.control = control]
         IN IF s.interval = DefaultAcquisitionInterval
            THEN [s1 EXCEPT !.pc = "sai_write_default"]
            ELSE IF ~IntervalInRange(translatedInterval(s.interval))
                 THEN Done(s1, 0, RangeError)
                 ELSE [s1 EXCEPT !.pc = "sai_write_interval"]

setAcquisitionIntervalRead(t) ==
    \E d \in Latencies : \E r \in ReadResults(modeControlRegister) :
        /\ BusRead(t, "sai_read", modeControlRegister, r)
        /\ th' = Step(t, d, setAcquisitionIntervalAfterRead(Elapse(th[t], d), r))

\* setAcquisitionInterval returned err to the mode setter.
setAcquisitionIntervalReturn(s, err) ==
    IF err # Nil THEN Done(s, 0, err) ELSE [s EXCEPT !.pc = "sac_write"]

setAcquisitionIntervalWriteDefault(t) ==
    \E d \in Latencies : \E err \in WriteResults :
        /\ BusWrite(t, "sai_write_default", modeControlRegister,
                    DefaultControl(th[t].control), err)
        /\ th' = Step(t, d, setAcquisitionIntervalReturn(Elapse(th[t], d), err))

\* As setAcquisitionIntervalAfterInterval, had the error of the interval
\* write been dropped.
setAcquisitionIntervalAfterIntervalIgnoreErr(s, err) ==
    [s EXCEPT !.pc = "sai_write_custom"]

setAcquisitionIntervalAfterInterval(s, err) ==
    IF err # Nil THEN Done(s, 0, err) ELSE [s EXCEPT !.pc = "sai_write_custom"]

setAcquisitionIntervalWriteInterval(t) ==
    \E d \in Latencies : \E err \in WriteResults :
        /\ BusWrite(t, "sai_write_interval", intervalRegister,
                    ToByte(translatedInterval(th[t].interval)), err)
        /\ th' = Step(t, d, setAcquisitionIntervalAfterInterval(Elapse(th[t], d), err))

setAcquisitionIntervalWriteCustom(t) ==
    \E d \in Latencies : \E err \in WriteResults :
        /\ BusWrite(t, "sai_write_custom", modeControlRegister,
                    CustomControl(th[t].control), err)
        /\ th' = Step(t, d, setAcquisitionIntervalReturn(Elapse(th[t], d), err))

\* As CountArg, had every mode setter passed a count of 0.
CountArgZero(s) == 0

\* The count each mode setter passes to setAcquisitionCount.
CountArg(s) == IF s.op = "SetContinuousMode" THEN s.total ELSE 0

setAcquisitionCount(t) ==
    \E d \in Latencies : \E err \in WriteResults :
        /\ BusWrite(t, "sac_write", countRegister, CountArg(th[t]), err)
        /\ th' = Step(t, d, Done(Elapse(th[t], d), 0, err))

\* --- waitReadyStatus
\* As waitReadyStatusAfterPoll, had the loop always ended in the timeout
\* error.
waitReadyStatusAfterPollAlwaysTimeout(s, r) ==
    IF r.err = Nil /\ ~HasBit(r.val, Busy)
    THEN waitReadyStatusReturn(s, r.val, Nil)
    ELSE IF s.waitElapsed >= WaitTimeout
         THEN waitReadyStatusReturn(s, r.val, TimeoutError)
         ELSE [s EXCEPT !.pc = "sleep"]

\* After one GetStatus of the polling loop.
waitReadyStatusAfterPoll(s, r) ==
    IF r.err = Nil /\ ~HasBit(r.val, Busy)
    THEN waitReadyStatusReturn(s, r.val, Nil)
    ELSE IF s.waitElapsed >= WaitTimeout
         THEN waitReadyStatusReturn(s, r.val, IF r.err = Nil THEN TimeoutError ELSE r.err)
         ELSE [s EXCEPT !.pc = "sleep"]

\* The polls so far, with r the latest.
Polled(s, r) ==
    IF r.err = Nil /\ s.polled \in {NotPolled, r.val} THEN r.val ELSE Unsteady

waitReadyStatusPoll(t) ==
    \E d \in Latencies : \E r \in ReadResults(statusRegister) :
        /\ BusRead(t, "poll", statusRegister, r)
        /\ th' = Step(t, d,
                      waitReadyStatusAfterPoll(
                          [Elapse(th[t], d) EXCEPT !.polled = Polled(th[t], r)], r))

\* As waitReadyStatusAfterSleep, had the backoff grown by one tick.
waitReadyStatusAfterSleepLinear(s) ==
    [s EXCEPT !.pc = "poll", !.backoff = s.backoff + 1]

\* time.Sleep(backoff); backoff *= 2
waitReadyStatusAfterSleep(s) ==
    [s EXCEPT !.pc = "poll", !.backoff = 2 * s.backoff]

waitReadyStatusSleep(t) ==
    /\ th[t].pc = "sleep"
    /\ th' = Step(t, th[t].backoff,
                  waitReadyStatusAfterSleep(Elapse(th[t], th[t].backoff)))
    /\ UNCHANGED <<dev, bus>>

\* --- waitAcquisitionReady: the health detail read, its error discarded
waitAcquisitionReadyHealth(t) ==
    \E d \in Latencies : \E r \in ReadResults(healthRegister) :
        /\ BusRead(t, "health", healthRegister, r)
        /\ th' = Step(t, d,
                      waitAcquisitionReadyReturn(Elapse(th[t], d),
                          waitAcquisitionReadyErr(th[t].status, r.val)))

\* --- Acquire
\* As AcquireCommand, had the two command codes been exchanged.
AcquireCommandSwapped(s) == IF s.stab THEN 3 ELSE 4

AcquireCommand(s) == IF s.stab THEN 4 ELSE 3

AcquireWrite(t) ==
    \E d \in Latencies : \E err \in WriteResults :
        /\ BusWrite(t, "acquire_command", commandRegister, AcquireCommand(th[t]), err)
        /\ th' = Step(t, d, AcquireReturn(Elapse(th[t], d), err))

\* --- ReadDistance
\* As ReadDistanceAfterRead, had a failed distance read returned the
\* HealthError of the wait in place of its own error.
ReadDistanceAfterReadKeepHealth(s, r) ==
    IF r.err # Nil
    THEN ReadDistanceReturn(s, 0, IF s.healthError # Nil THEN s.healthError
                                  ELSE r.err)
    ELSE ReadDistanceReturn(s, r.val, s.healthError)

\* After the read of the distance register.
ReadDistanceAfterRead(s, r) ==
    IF r.err # Nil THEN ReadDistanceReturn(s, 0, r.err)
    ELSE ReadDistanceReturn(s, r.val, s.healthError)

ReadDistanceWord(t) ==
    \E d \in Latencies : \E r \in ReadResults(distanceRegister) :
        /\ BusRead(t, "rd_word", distanceRegister, r)
        /\ th' = Step(t, d, ReadDistanceAfterRead(Elapse(th[t], d), r))

\* --- GetDistance
\* As GetDistanceAfterCount, had the error of the count write been dropped.
GetDistanceAfterCountIgnoreErr(s, err) == waitReadyStatus(s, "Acquire")

GetDistanceAfterCount(s, err) ==
    IF err # Nil THEN Done(s, 0, err) ELSE waitReadyStatus(s, "Acquire")

GetDistanceCount(t) ==
    \E d \in Latencies : \E err \in WriteResults :
        /\ BusWrite(t, "gd_count", countRegister, 0, err)
        /\ th' = Step(t, d, GetDistanceAfterCount(Elapse(th[t], d), err))

\* --- ReadVelocity
\* As ReadVelocityAfterControl, had the interval register been read
\* whatever the control byte.
ReadVelocityAfterControlAlwaysScale(s, r) ==
    IF r.err # Nil THEN Done(s, 0, r.err)
    ELSE [s EXCEPT !.pc = "rv_scale", !.control = r.val]

\* After the control register read of ReadVelocity.
ReadVelocityAfterControl(s, r) ==
    IF r.err # Nil THEN Done(s, 0, r.err)
    ELSE IF HasBit(r.val, customAcquisitionInterval)
         THEN [s EXCEPT !.pc = "rv_scale", !.control = r.val]
         ELSE [s EXCEPT !.pc = "rv_raw", !.control = r.val,
                        !.scale = defaultIntervalValue]

ReadVelocityControl(t) ==
    \E d \in Latencies : \E r \in ReadResults(modeControlRegister) :
        /\ BusRead(t, "rv_control", modeControlRegister, r)
        /\ th' = Step(t, d, ReadVelocityAfterControl(Elapse(th[t], d), r))

ReadVelocityAfterScale(s, r) ==
    IF r.err # Nil THEN Done([s EXCEPT !.scale = r.val], 0, r.err)
    ELSE [s EXCEPT !.pc = "rv_raw", !.scale = r.val]

ReadVelocityScale(t) ==
    \E d \in Latencies : \E r \in ReadResults(intervalRegister) :
        /\ BusRead(t, "rv_scale", intervalRegister, r)
        /\ th' = Step(t, d, ReadVelocityAfterScale(Elapse(th[t], d), r))

\* int8(b) of a byte.
Int8(b) == IF b >= 128 THEN b - 256 ELSE b
\* int16(x) of an integer.
Int16(x) == ((x + 32768) % 65536) - 32768
\* As VelocityValue, had the division rounded toward minus infinity.
VelocityValueFloor(valueUnscaled, scale) == Int16((Int8(valueUnscaled) * scale) \div 20)

\* int16(int(int8(valueUnscaled)) * int(scale) / 20)
VelocityValue(valueUnscaled, scale) == Int16(GoDiv(Int8(valueUnscaled) * scale, 20))

ReadVelocityAfterRaw(s, r) ==
    IF r.err # Nil THEN Done(s, 0, r.err)
    ELSE Done(s, VelocityValue(r.val, s.scale), s.healthError)

ReadVelocityRaw(t) ==
    \E d \in Latencies : \E r \in ReadResults(velocityRegister) :
        /\ BusRead(t, "rv_raw", velocityRegister, r)
        /\ th' = Step(t, d, ReadVelocityAfterRaw(Elapse(th[t], d), r))

\* --- Wake, Reset, Sleep
\* Wake's dummy GetStatus: value and error are both discarded.
WakeStatus(t) ==
    \E d \in Latencies : \E r \in ReadResults(statusRegister) :
        /\ BusRead(t, "wake_status", statusRegister, r)
        /\ th' = Step(t, d, [Elapse(th[t], d) EXCEPT !.pc = "wake_write"])

\* As WakeReturn, had Reset gone on after a failed Wake.
WakeReturnIgnoreErr(s, err) ==
    IF s.op = "Reset" THEN [s EXCEPT !.pc = "reset_command"]
    ELSE Done(s, 0, err)

\* Wake returned err to its caller.
WakeReturn(s, err) ==
    IF s.op = "Reset"
    THEN IF err # Nil THEN Done(s, 0, err) ELSE [s EXCEPT !.pc = "reset_command"]
    ELSE Done(s, 0, err)

WakeWrite(t) ==
    \E d \in Latencies : \E err \in WriteResults :
        /\ BusWrite(t, "wake_write", sleepRegister, 0, err)
        /\ th' = Step(t, d, WakeReturn(Elapse(th[t], d), err))

ResetAfterCommand(s, err) ==
    IF err # Nil THEN Done(s, 0, err) ELSE waitReadyStatus(s, "Reset")

ResetWrite(t) ==
    \E d \in Latencies : \E err \in WriteResults :
        /\ BusWrite(t, "reset_command", commandRegister, 0, err)
        /\ th' = Step(t, d, ResetAfterCommand(Elapse(th[t], d), err))

SleepWrite(t) ==
    \E d \in Latencies : \E err \in WriteResults :
        /\ BusWrite(t, "sleep_write", sleepRegister, 15, err)
        /\ th' = Step(t, d, Done(Elapse(th[t], d), 0, err))

\* ------------------------------------------------------------ properties
\* The one caller of Spec and SpecGetDistance.
caller == th[1]
Returned(op) == caller.pc = "done" /\ caller.op = op

\* d is not the default interval and d_ns*2/1000000 is outside
\* [minIntervalValue, maxIntervalValue].
OutOfRange(d) ==
    /\ d # DefaultAcquisitionInterval
    /\ \/ translatedInterval(d) < minIntervalValue
       \/ translatedInterval(d) > maxIntervalValue

RejectedCall ==
    /\ caller.op \in {"SetContinuousMode", "SetDistanceAndVelocityMode"}
    /\ caller.pc # "idle"
    /\ OutOfRange(caller.interval)

\* C1 as stated: SetContinuousMode and SetDistanceAndVelocityMode called
\* with an interval outside the range always return the range error and
\* write no register.
C1_AlwaysRangeError ==
    (RejectedCall /\ caller.pc = "done")
        => caller.err = RangeError /\ bus.wrote = {}

\* C1 as amended: such a call writes no register (not 0x45, not 0x04, not
\* 0x11) and its only bus transaction is the read of the control register;
\* it returns the range error when that read succeeds and the read's
\* transport error when it fails.
C1_RejectedBeforeAnyWrite ==
    RejectedCall =>
        /\ bus.wrote = {}
        /\ bus.reads \subseteq {modeControlRegister}
        /\ caller.pc \in {"sai_read", "done"}
        /\ caller.pc = "done" =>
              /\ bus.last.kind = "read" /\ bus.last.reg = modeControlRegister
              /\ caller.err = (IF bus.last.err = Nil THEN RangeError
                               ELSE bus.last.err)

C1_Witness ==
    /\ RejectedCall /\ caller.pc = "done"
    /\ caller.op = "SetContinuousMode"
    /\ caller.interval = Duration(0, 128000000)
    /\ caller.err = RangeError
    /\ dev.control = 40

\* The status poll ended with Busy, Healthy, ErrorDetected and
\* SignalNotDetected all clear.
SoftStatus ==
    /\ caller.waitErr = Nil
    /\ ~HasBit(caller.status, Busy) /\ ~HasBit(caller.status, Healthy)
    /\ ~HasBit(caller.status, ErrorDetected)
    /\ ~HasBit(caller.status, SignalNotDetected)

\* The scale ReadVelocity applies on this device.
DeviceScale ==
    IF HasBit(dev.control, customAcquisitionInterval) THEN dev.interval
    ELSE defaultIntervalValue

LastReadOk(reg) ==
    bus.last.kind = "read" /\ bus.last.reg = reg /\ bus.last.err = Nil

\* C2: after a status poll ending in degraded health only, ReadDistance and
\* ReadVelocity go on to read the measurement registers, and when those
\* reads succeed they return the decoded value together with a HealthError.
C2_SoftFail ==
    /\ (Returned("ReadDistance") /\ SoftStatus) =>
          /\ distanceRegister \in bus.reads
          /\ LastReadOk(distanceRegister) =>
                caller.value = bus.last.val /\ IsHealthError(caller.err)
    /\ (Returned("ReadVelocity") /\ SoftStatus) =>
          /\ modeControlRegister \in bus.reads
          /\ LastReadOk(velocityRegister) =>
                /\ caller.value =
                     GoDiv(Int8(bus.last.val) * DeviceScale, 20)
                /\ IsHealthError(caller.err)

C2_Witness ==
    /\ Returned("ReadDistance") /\ SoftStatus
    /\ caller.value = 65535
    /\ caller.err = HealthError(8)

\* Every poll of the wait read the status byte b.
EveryPollRead(b) == caller.polled = b

\* C3 as stated: when every poll reads 0b00100001, ReadDistance returns a
\* value together with a HealthError.
C3_Status33IsDegraded ==
    (Returned("ReadDistance") /\ EveryPollRead(33)) =>
        IsHealthError(caller.err)

\* C3 as amended: 0b00100001 has Busy (bit 0) and Healthy (bit 5) set, so
\* when every poll reads it ReadDistance returns 0 and the timeout error
\* without reading the distance; the byte with Busy clear, SecondReturn set
\* and Healthy clear is 0b00010000, and when every poll reads that,
\* ReadDistance reads the distance and returns it with a HealthError.
C3_Status16IsDegraded ==
    /\ (Returned("ReadDistance") /\ EveryPollRead(33)) =>
          /\ caller.value = 0 /\ caller.err = TimeoutError
          /\ distanceRegister \notin bus.reads
    /\ (Returned("ReadDistance") /\ EveryPollRead(SecondReturn)) =>
          /\ distanceRegister \in bus.reads
          /\ LastReadOk(distanceRegister) =>
                caller.value = bus.last.val /\ IsHealthError(caller.err)

C3_Witness ==
    /\ Returned("ReadDistance") /\ EveryPollRead(33)
    /\ caller.err = TimeoutError

\* The readiness wait ended in a fatal condition.
FatalWait ==
    \/ caller.waitErr # Nil
    \/ HasBit(caller.status, ErrorDetected)
    \/ HasBit(caller.status, SignalNotDetected)

\* C4: when the readiness wait of ReadDistance ends in a fatal condition,
\* ReadDistance returns 0 with that error (never a HealthError) and does
\* not read the distance register; status 0b01000000 gives the
\* measurement error.
C4_FatalWithoutRead ==
    (Returned("ReadDistance") /\ FatalWait) =>
        /\ caller.value = 0
        /\ distanceRegister \notin bus.reads
        /\ caller.err # Nil /\ ~IsHealthError(caller.err)
        /\ caller.waitErr # Nil =>
              caller.err = caller.waitErr
                  /\ caller.err.kind \in {"timeout", "transport"}
        /\ caller.waitErr = Nil =>
              caller.err \in {MeasurementError, SignalError}
        /\ (caller.waitErr = Nil /\ caller.status = 64) =>
              caller.err = MeasurementError

C4_Witness ==
    /\ Returned("ReadDistance")
    /\ caller.waitErr = Nil /\ caller.status = 64
    /\ caller.err = MeasurementError /\ caller.value = 0
    /\ healthRegister \in bus.reads

\* The kind of error a non-busy status calls for, by priority.
ExpectedKind(status) ==
    IF HasBit(status, SignalNotDetected) THEN "signal"
    ELSE IF HasBit(status, ErrorDetected) THEN "measurement"
    ELSE IF ~HasBit(status, Healthy) THEN "health"
    ELSE "nil"

\* waitAcquisitionReady has returned to ReadDistance or ReadVelocity.
AcquisitionWaitOver ==
    /\ caller.op \in {"ReadDistance", "ReadVelocity"}
    /\ caller.pc \in {"rd_word", "rv_control", "rv_scale", "rv_raw", "done"}

\* The bit tests of waitAcquisitionReady agree with the priority order on
\* every status byte with Busy clear.
ClassifierByPriority ==
    \A status \in {b \in 0..255 : ~HasBit(b, Busy)} :
        \A flags \in HealthFlagValues :
            LET e == waitAcquisitionReadyErr(status, flags)
            IN /\ e.kind = ExpectedKind(status)
               /\ IsHealthError(e) => e.info = flags
               /\ HasBit(status, ErrorDetected) => ~IsHealthError(e)

\* C5: for a status with Busy clear waitAcquisitionReady returns the
\* signal error if SignalNotDetected is set, else the measurement error if
\* ErrorDetected is set, else a HealthError if Healthy is clear, else nil;
\* Healthy clear with ErrorDetected set is never a HealthError.
C5_LastDetectedWins ==
    /\ ClassifierByPriority
    /\ (AcquisitionWaitOver /\ caller.waitErr = Nil) =>
          /\ ~HasBit(caller.status, Busy)
          /\ caller.healthError.kind = ExpectedKind(caller.status)

C5_Witness ==
    /\ AcquisitionWaitOver /\ caller.op = "ReadVelocity"
    /\ caller.waitErr = Nil /\ caller.status = 72
    /\ caller.healthError = SignalError
    /\ bus.last.reg = healthRegister

InGetDistance == caller.op = "GetDistance" /\ caller.pc \notin {"idle", "done"}

\* C6 as stated: GetDistance has returned within WaitTimeout of its start.
C6_WithinWaitTimeout ==
    Returned("GetDistance") => caller.gdElapsed <= WaitTimeout

\* GetDistance goes round its loop: a failed attempt is followed by another.
NewAttempt ==
    /\ InGetDistance /\ caller.pc # "gd_count"
    /\ th'[1].pc = "poll" /\ th'[1].frame = "Acquire" /\ th'[1].backoff = 1

\* The longest one waitReadyStatus can take: its last sleep starts before
\* WaitTimeout and is no longer than the time already slept plus one tick,
\* and one poll follows it.
MaxWait == 2 * WaitTimeout - 1 + MaxBusLatency
\* The longest one attempt can take: the wait of Acquire, its command
\* write, the wait of ReadDistance, the health and the distance read.
MaxAttempt == 2 * MaxWait + 3 * MaxBusLatency
\* The latest an attempt can start: the first after the count write, the
\* others before WaitTimeout.
LatestStart ==
    IF MaxBusLatency > WaitTimeout - 1 THEN MaxBusLatency ELSE WaitTimeout - 1

\* C6 as amended: GetDistance starts no new attempt once WaitTimeout has
\* elapsed since its start, and an attempt takes a bounded time; the
\* attempt in progress is not cut short, so the call ends (there is no
\* infinite loop as long as the clock advances) but may end later than
\* WaitTimeout, by up to the duration of one attempt.
C6_Terminates ==
    /\ [][NewAttempt => th'[1].gdElapsed < WaitTimeout]_vars
    /\ [](caller.op = "GetDistance" => caller.gdElapsed <= LatestStart + MaxAttempt)

C6_Witness ==
    /\ Returned("GetDistance")
    /\ caller.err = TimeoutError
    /\ caller.polled = 1
    /\ caller.gdElapsed > WaitTimeout

\* A step that puts a transaction on the bus.
BusTransaction == bus'.last # bus.last /\ bus'.last.kind # "none"
LastFailed == bus.last.err # Nil
LastRead(reg) == bus.last.kind = "read" /\ bus.last.reg = reg

\* C7 as stated: once a bus transaction has failed, the operation puts no
\* further transaction on the bus.
C7_NeverRetried == [][BusTransaction => ~LastFailed]_vars

\* C7 as amended: a failed bus transaction ends the operation at once with
\* that transport error unmodified, except in the three places where the
\* code carries on: a failed status poll of waitReadyStatus is followed by
\* a sleep and another poll until WaitTimeout has elapsed (and then ends
\* the operation with its error), Wake goes on to its write after a failed
\* dummy status read, and the byte that came with a failed read of the
\* health register 0x48 is used as if the read had succeeded.  (GetDistance, in addition, starts another
\* attempt after a failed one until WaitTimeout has elapsed.)
C7_PropagatedUnlessIgnored ==
    LastFailed =>
        \/ caller.pc = "done" /\ caller.err = bus.last.err
        \/ LastRead(statusRegister) /\ caller.pc \in {"sleep", "poll", "wake_write"}
        \/ /\ LastRead(healthRegister)
           /\ caller.healthError = waitAcquisitionReadyErr(caller.status, bus.last.val)
           /\ \/ caller.pc \in {"rd_word", "rv_control"}
              \/ caller.pc = "done" /\ caller.err = caller.healthError

C7_Witness ==
    /\ Returned("SetContinuousMode")
    /\ bus.last.kind = "write" /\ bus.last.reg = intervalRegister
    /\ caller.err = TransportError(2)
    /\ bus.wrote = {intervalRegister}

\* The calls in flight on the handle.
InFlight == {t \in Threads : th[t].pc \notin {"idle", "done"}}

\* The control register still holds what t read from it, but for the
\* velocity bit t has set or cleared in its copy.
ControlUnchangedSinceRead(t) ==
    ClearBit(dev.control, velocityModeEnabled)
        = ClearBit(th[t].control, velocityModeEnabled)

\* C8: at most one operation is in flight on a handle, and the control
\* register is never written by another operation between the read and
\* the write of a mode-set.
C8_MutualExclusion ==
    /\ Cardinality(InFlight) <= 1
    /\ \A t \in Threads :
          th[t].pc \in {"sai_write_default", "sai_write_custom"}
              => ControlUnchangedSinceRead(t)

\* waitReadyStatus has just returned: its last poll is the latest
\* transaction on the bus.
WaitJustReturned ==
    /\ caller.frame # "none" /\ caller.pc \notin {"poll", "sleep"}
    /\ caller.backoff >= 1
    /\ LastRead(statusRegister)

\* C9: the error of waitReadyStatus is decided by its last status read
\* alone: nil if it succeeded with Busy clear, the timeout error if it
\* succeeded with Busy set, its transport error if it failed; and an error
\* is returned only once WaitTimeout has elapsed.
C9_LastReadDecides ==
    WaitJustReturned =>
        /\ caller.waitErr =
             (IF bus.last.err # Nil THEN bus.last.err
              ELSE IF HasBit(bus.last.val, Busy) THEN TimeoutError ELSE Nil)
        /\ caller.waitErr # Nil => caller.waitElapsed >= WaitTimeout

C9_Witness ==
    /\ WaitJustReturned
    /\ caller.polled = Unsteady
    /\ bus.last.err = Nil
    /\ caller.waitErr = TimeoutError
    /\ caller.op = "Acquire"

\* backoff is 2^k after k sleeps, which took 2^k - 1 ticks together.
PowerOfTwo(n) == \E k \in 0..(WaitTimeout + 1) : n = 2 ^ k
InWait(s) == s.pc \in {"poll", "sleep"}

\* C10: the sleeps of waitReadyStatus take 1, 2, 4, ... ticks, a sleep
\* starts only while the elapsed time is below WaitTimeout, and when the
\* bus reads take no time the wait ends no later than WaitTimeout plus the
\* last sleep.
C10_Backoff ==
    /\ [][waitReadyStatusSleep(1) =>
             /\ caller.waitElapsed < WaitTimeout
             /\ th'[1].waitElapsed - caller.waitElapsed = caller.backoff
             /\ th'[1].backoff = 2 * caller.backoff]_vars
    /\ [][(~InWait(caller) /\ InWait(th'[1])) => th'[1].backoff = 1]_vars
    /\ [](caller.backoff >= 1 =>
             /\ PowerOfTwo(caller.backoff)
             /\ caller.waitElapsed >= caller.backoff - 1
             /\ (caller.waitElapsed = caller.backoff - 1 /\ caller.backoff >= 2)
                   => caller.waitElapsed < WaitTimeout + caller.backoff \div 2)

C10_Witness ==
    /\ WaitJustReturned
    /\ caller.backoff = 4
    /\ caller.waitElapsed = 3
    /\ caller.waitErr = TimeoutError

\* The signed reading of a raw velocity byte.
Signed8(r) == IF r < 128 THEN r ELSE r - 256

\* q is a / 20 with the division truncating toward zero.
IsTruncatedQuotient(a, q) ==
    LET rem == a - 20 * q
    IN /\ rem > -20 /\ rem < 20
       /\ a >= 0 => rem >= 0
       /\ a <= 0 => rem <= 0

\* The decoding on every raw byte and every scale byte.
VelocityDecoding ==
    \A r \in 0..255 : \A sc \in 0..255 :
        LET v == VelocityValue(r, sc)
        IN /\ IsTruncatedQuotient(Signed8(r) * sc, v)
           /\ v >= -32768 /\ v <= 32767

\* C11: a successful ReadVelocity returns (signed8(r) * s) / 20, the
\* division truncating toward zero, for the raw byte r and the scale s it
\* read, and the result fits a signed 16-bit value; 0xFF with scale 200 is
\* -10 and 0x7F with scale 20 is 127.
C11_VelocityDecoding ==
    /\ VelocityDecoding
    /\ VelocityValue(255, 200) = -10
    /\ VelocityValue(127, 20) = 127
    /\ (Returned("ReadVelocity") /\ LastReadOk(velocityRegister)) =>
          /\ IsTruncatedQuotient(Signed8(bus.last.val) * DeviceScale, caller.value)
          /\ caller.scale = DeviceScale
          /\ bus.last.val = 255 /\ DeviceScale = 200 => caller.value = -10
          /\ bus.last.val = 127 /\ DeviceScale = 20 => caller.value = 127

C11_Witness ==
    /\ Returned("ReadVelocity") /\ LastReadOk(velocityRegister)
    /\ bus.last.val = 127 /\ DeviceScale = 20
    /\ caller.value = 127 /\ caller.err = Nil

\* ReadVelocity has its scale: it is about to read, or has read, the raw
\* velocity.
ScaleChosen ==
    /\ caller.op = "ReadVelocity"
    /\ \/ caller.pc = "rv_raw"
       \/ caller.pc = "done" /\ velocityRegister \in bus.reads

\* C12: ReadVelocity takes its scale from the interval register 0x45
\* exactly when the control byte it read in the same call has the
\* custom-interval bit set; with the bit clear it does not read 0x45 and
\* uses the default scale 0xc8.
C12_ScaleSource ==
    /\ (caller.op = "ReadVelocity" /\ intervalRegister \in bus.reads) =>
          /\ modeControlRegister \in bus.reads
          /\ HasBit(caller.control, customAcquisitionInterval)
    /\ ScaleChosen =>
          /\ caller.control = dev.control
          /\ HasBit(caller.control, customAcquisitionInterval) =>
                intervalRegister \in bus.reads /\ caller.scale = dev.interval
          /\ ~HasBit(caller.control, customAcquisitionInterval) =>
                intervalRegister \notin bus.reads
                    /\ caller.scale = defaultIntervalValue

C12_Witness ==
    /\ ScaleChosen /\ caller.pc = "done" /\ caller.err = Nil
    /\ ~HasBit(caller.control, customAcquisitionInterval)
    /\ dev.interval = 20 /\ caller.scale = defaultIntervalValue
    /\ intervalRegister \notin bus.reads

\* The latest bus transaction is a write to reg.
LastWrite(reg) == bus.last.kind = "write" /\ bus.last.reg = reg

\* The register unit of the interval register, half a millisecond, in ns.
RegisterUnit == Millisecond \div 2

\* Decoding the byte b as half-milliseconds gives d to within one register
\* unit.
Recovers(d, b) ==
    /\ d.high = 0
    /\ d.ns - b * RegisterUnit > -RegisterUnit
    /\ d.ns - b * RegisterUnit < RegisterUnit

\* C13: for every duration setAcquisitionInterval accepts on the custom
\* path, the byte written to register 0x45 is d_ns*2/1000000, a value of
\* minIntervalValue..maxIntervalValue, and decoding that byte as
\* half-milliseconds recovers the duration to within one register unit.
C13_RoundTrip ==
    LastWrite(intervalRegister) =>
        /\ bus.last.val = translatedInterval(caller.interval)
        /\ bus.last.val >= minIntervalValue /\ bus.last.val <= maxIntervalValue
        /\ Recovers(caller.interval, bus.last.val)

ModeSetReturned == caller.pc = "done" /\ caller.op \in ModeOps

\* C14: over any sequence of mode-set calls, failed ones included, on a
\* device that starts with the custom-interval bit clear: whenever the bit
\* is set in the control register, the interval register holds a value of
\* minIntervalValue..maxIntervalValue written by the driver; and right
\* after a successful mode-set with the default interval the bit is clear.
C14_CustomBitConsistent ==
    /\ HasBit(dev.control, customAcquisitionInterval) =>
          /\ dev.interval >= minIntervalValue /\ dev.interval <= maxIntervalValue
          /\ dev.interval \notin ModeIntervalRegisters
    /\ (ModeSetReturned /\ caller.err = Nil
            /\ caller.interval = DefaultAcquisitionInterval) =>
          ~HasBit(dev.control, customAcquisitionInterval)

C14_Witness ==
    /\ ModeSetReturned /\ caller.err # Nil
    /\ LastWrite(modeControlRegister)
    /\ caller.interval = DefaultAcquisitionInterval
    /\ HasBit(dev.control, customAcquisitionInterval)
    /\ dev.interval = 255

\* NewLidar has returned the handle and no operation has been called on it.
JustConstructed == bus.last.kind = "new"

\* C15: when NewLidar returns the handle, the reset command (0x00 to the
\* command register 0x00) has been written and the device's registers are
\* at their defaults.
C15_ConstructorResets ==
    JustConstructed =>
        /\ commandRegister \in bus.wrote
        /\ dev = DeviceDefaults

\* The byte the custom path writes to the interval register for this call.
IntervalByte == ToByte(translatedInterval(caller.interval))

\* C16: on the custom-interval path the interval register is written
\* before the control register; a failed interval write ends the call with
\* neither register changed and no control write; a failed control write
\* ends it with the interval register holding the new byte and the control
\* register its old value.
C16_IntervalThenControl ==
    /\ [](caller.pc = "sai_write_custom" =>
             /\ LastWrite(intervalRegister) /\ bus.last.err = Nil
             /\ bus.last.val = IntervalByte /\ dev.interval = IntervalByte
             /\ modeControlRegister \notin bus.wrote)
    /\ []((ModeSetReturned /\ LastWrite(intervalRegister)) =>
             /\ bus.last.err # Nil /\ caller.err = bus.last.err
             /\ modeControlRegister \notin bus.wrote)
    /\ [][(caller.pc = "sai_write_interval" /\ th'[1].pc = "done") =>
             dev' = dev]_vars
    /\ [][(caller.pc = "sai_write_custom" /\ th'[1].pc = "done") =>
             /\ bus'.last.err # Nil /\ th'[1].err = bus'.last.err
             /\ dev'.control = dev.control
             /\ dev'.interval = IntervalByte]_vars
    /\ [][(caller.pc = "sai_write_custom" /\ th'[1].pc # "done") =>
             /\ dev'.control = CustomControl(caller.control)
             /\ dev'.interval = IntervalByte]_vars

C16_Witness ==
    /\ ModeSetReturned /\ LastWrite(modeControlRegister)
    /\ caller.err # Nil
    /\ caller.interval = Duration(0, 1000000)
    /\ intervalRegister \in bus.wrote
    /\ dev.interval = 2
    /\ ~HasBit(dev.control, customAcquisitionInterval)

\* The six bits of a control byte other than bit 7 and bit 5.
OtherBits(b) == ClearBit(ClearBit(b, velocityModeEnabled), customAcquisitionInterval)

\* This step writes the control register.
ControlWrite ==
    /\ caller.pc \in {"sai_write_default", "sai_write_custom"}
    /\ bus'.last.kind = "write" /\ bus'.last.reg = modeControlRegister

\* C17: the byte setAcquisitionInterval writes to the control register is
\* the byte it read from it with bit 7 set per the velocity argument, bit 5
\* set on the custom path and clear on the default path, and the six other
\* bits as read; on the default path that write is its only one and the
\* interval register is left as it was.
C17_ControlFrame ==
    /\ [](caller.pc \in {"sai_write_default", "sai_write_interval"} =>
             /\ LastReadOk(modeControlRegister) /\ bus.last.val = dev.control
             /\ bus.wrote = {}
             /\ OtherBits(caller.control) = OtherBits(bus.last.val)
             /\ HasBit(caller.control, velocityModeEnabled) <=> velocity(caller))
    /\ [][ControlWrite =>
             /\ OtherBits(bus'.last.val) = OtherBits(dev.control)
             /\ HasBit(bus'.last.val, velocityModeEnabled) <=> velocity(caller)
             /\ HasBit(bus'.last.val, customAcquisitionInterval)
                   <=> caller.interval # DefaultAcquisitionInterval]_vars
    /\ [][caller.pc = "sai_write_default" =>
             /\ bus'.wrote = {modeControlRegister}
             /\ th'[1].pc \in {"sac_write", "done"}
             /\ dev'.interval = dev.interval]_vars

C17_Witness ==
    /\ caller.pc = "sac_write" /\ caller.op = "SetDistanceAndVelocityMode"
    /\ caller.interval = DefaultAcquisitionInterval
    /\ LastWrite(modeControlRegister) /\ bus.last.val = 137
    /\ dev.control = 137 /\ dev.interval = 255

ModeSetSucceeded(op) == Returned(op) /\ caller.err = Nil

\* C18: a successful SetDistanceOnlyMode leaves the velocity bit and the
\* custom-interval bit clear and the count register 0; a successful
\* SetContinuousMode(total, interval) leaves the velocity bit clear and the
\* count register equal to total; a successful SetDistanceAndVelocityMode
\* leaves the velocity bit set and the count register 0; the count
\* register is written last, and only after the interval configuration
\* succeeded.
C18_ModeSetters ==
    /\ ModeSetSucceeded("SetDistanceOnlyMode") =>
          /\ ~HasBit(dev.control, velocityModeEnabled)
          /\ ~HasBit(dev.control, customAcquisitionInterval)
          /\ dev.count = 0
    /\ ModeSetSucceeded("SetContinuousMode") =>
          /\ ~HasBit(dev.control, velocityModeEnabled)
          /\ dev.count = caller.total
    /\ ModeSetSucceeded("SetDistanceAndVelocityMode") =>
          /\ HasBit(dev.control, velocityModeEnabled)
          /\ dev.count = 0
    /\ (ModeSetReturned /\ caller.err = Nil) =>
          /\ LastWrite(countRegister) /\ bus.last.err = Nil
          /\ modeControlRegister \in bus.wrote
    /\ (caller.op \in ModeOps /\ countRegister \in bus.wrote) =>
          caller.pc = "done" /\ LastWrite(countRegister)
    /\ caller.pc = "sac_write" =>
          /\ LastWrite(modeControlRegister) /\ bus.last.err = Nil
          /\ countRegister \notin bus.wrote

C18_Witness ==
    /\ ModeSetSucceeded("SetContinuousMode")
    /\ caller.total = InfiniteAcquisitions /\ dev.count = InfiniteAcquisitions
    /\ caller.interval = Duration(0, 127999999)
    /\ dev.interval = 255 /\ dev.control = 41

InAcquire == caller.op = "Acquire"

\* C19: Acquire writes the command register at most once per call, 0x04
\* with stabilizePreamp and 0x03 without, and only straight after a status
\* read of the same call that succeeded with Busy clear; a failed wait
\* (timeout or transport error) writes no command; the Healthy,
\* ErrorDetected and SignalNotDetected bits do not hold the command back.
C19_AcquireCommand ==
    /\ []((InAcquire /\ caller.pc = "acquire_command") =>
             /\ LastReadOk(statusRegister) /\ ~HasBit(bus.last.val, Busy)
             /\ bus.wrote = {})
    /\ []((InAcquire /\ LastReadOk(statusRegister) /\ ~HasBit(bus.last.val, Busy)) =>
             caller.pc = "acquire_command")
    /\ []((InAcquire /\ bus.wrote # {}) =>
             /\ caller.pc = "done" /\ LastWrite(commandRegister)
             /\ bus.wrote = {commandRegister}
             /\ bus.last.val = (IF caller.stab THEN 4 ELSE 3)
             /\ caller.err = bus.last.err)
    /\ []((Returned("Acquire") /\ LastRead(statusRegister)) =>
             /\ bus.wrote = {}
             /\ caller.err # Nil /\ caller.err.kind \in {"timeout", "transport"})
    /\ [][(InAcquire /\ caller.pc = "acquire_command") =>
             /\ bus'.last.kind = "write" /\ bus'.last.reg = commandRegister
             /\ th'[1].pc = "done"]_vars

C19_Witness ==
    /\ Returned("Acquire") /\ caller.err = Nil
    /\ caller.stab /\ LastWrite(commandRegister) /\ bus.last.val = 4
    /\ caller.polled = 72

\* HealthError.Error(): which message the flags select.
HealthErrorMessage(flags) ==
    IF HasBit(flags, 2) THEN "reference signal failure"
    ELSE IF HasBit(flags, 4) THEN "transmit power failure"
    ELSE IF HasBit(flags, 8) THEN "DC (preamplifier) failure"
    ELSE "measurement result may be inaccurate"

\* The status poll of waitAcquisitionReady succeeded with Healthy clear.
PolledUnhealthy == caller.waitErr = Nil /\ ~HasBit(caller.status, Healthy)

\* C20: waitAcquisitionReady reads the health detail register 0x48
\* exactly when its status poll succeeded with Healthy clear; when that
\* read fails and no fatal bit is set, the result is a HealthError, not the
\* read's transport error, and its message is the generic one.
C20_HealthDetailFallback ==
    AcquisitionWaitOver =>
        /\ healthRegister \in bus.reads <=> PolledUnhealthy
        /\ (LastRead(healthRegister) /\ LastFailed /\ SoftStatus) =>
              /\ IsHealthError(caller.healthError)
              /\ HealthErrorMessage(caller.healthError.info)
                    = "measurement result may be inaccurate"

\* GetDistance is at its first step, the count write.
AtCountWrite == caller.op = "GetDistance" /\ caller.pc = "gd_count"

\* This step is GetDistance's call of ReadDistance.
CallsReadDistance ==
    /\ InGetDistance
    /\ caller.frame # "ReadDistance" /\ th'[1].frame = "ReadDistance"

\* C21: GetDistance first writes 0 to the count register 0x11 and, if that
\* write fails, returns its error with no acquire command issued; every
\* command it writes is 0x04; it calls ReadDistance only straight after an
\* Acquire whose command write succeeded; and it returns as soon as a
\* ReadDistance returns a nil error, with the value of that read.
C21_GetDistanceOrder ==
    /\ [](AtCountWrite => bus.wrote = {} /\ bus.reads = {})
    /\ [][AtCountWrite =>
             /\ bus'.last.kind = "write" /\ bus'.last.reg = countRegister
             /\ bus'.last.val = 0
             /\ bus'.last.err # Nil =>
                   /\ th'[1].pc = "done" /\ th'[1].err = bus'.last.err
                   /\ commandRegister \notin bus'.wrote
             /\ bus'.last.err = Nil =>
                   th'[1].pc = "poll" /\ th'[1].frame = "Acquire"]_vars
    /\ []((caller.op = "GetDistance" /\ LastWrite(commandRegister)) =>
             bus.last.val = 4)
    /\ [][CallsReadDistance =>
             /\ caller.pc = "acquire_command"
             /\ bus'.last.kind = "write" /\ bus'.last.reg = commandRegister
             /\ bus'.last.err = Nil]_vars
    /\ [][(InGetDistance /\ caller.pc = "acquire_command"
               /\ bus'.last.err # Nil) =>
             th'[1].frame = "Acquire"]_vars
    /\ []((Returned("GetDistance") /\ caller.err = Nil) =>
             /\ LastReadOk(distanceRegister)
             /\ caller.value = bus.last.val)
    /\ [][(InGetDistance /\ caller.pc = "rd_word" /\ caller.healthError = Nil
               /\ bus'.last.err = Nil) =>
             /\ th'[1].pc = "done" /\ th'[1].err = Nil
             /\ th'[1].value = bus'.last.val]_vars

C21_Witness ==
    /\ Returned("GetDistance") /\ caller.err = Nil
    /\ caller.value = 300
    /\ healthRegister \in bus.reads
    /\ caller.gdElapsed = 1

\* Reset is at the given position of its code.
ResetAt(pc) == caller.op = "Reset" /\ caller.pc = pc

\* C22: Reset reads the status register and ignores value and error, writes
\* 0x00 to the sleep/wake register 0x65, writes 0x00 to the command register
\* 0x00, and then waits for a non-busy status, in this order; after a failed
\* wake write the reset command is not written, and after a failed reset
\* command write no status poll follows.
C22_ResetSequence ==
    /\ [](ResetAt("wake_status") => bus.wrote = {} /\ bus.reads = {})
    /\ [][ResetAt("wake_status") =>
             /\ bus'.last.kind = "read" /\ bus'.last.reg = statusRegister
             /\ th'[1].pc = "wake_write"
             /\ bus'.wrote = {}]_vars
    /\ [][ResetAt("wake_write") =>
             /\ bus'.last.kind = "write" /\ bus'.last.reg = sleepRegister
             /\ bus'.last.val = 0
             /\ bus'.last.err # Nil =>
                   th'[1].pc = "done" /\ th'[1].err = bus'.last.err
             /\ bus'.last.err = Nil => th'[1].pc = "reset_command"]_vars
    /\ [][ResetAt("reset_command") =>
             /\ bus.wrote = {sleepRegister}
             /\ bus'.last.kind = "write" /\ bus'.last.reg = commandRegister
             /\ bus'.last.val = 0
             /\ bus'.last.err # Nil =>
                   th'[1].pc = "done" /\ th'[1].err = bus'.last.err
             /\ bus'.last.err = Nil =>
                   th'[1].pc = "poll" /\ th'[1].frame = "Reset"]_vars
    /\ []((Returned("Reset") /\ LastWrite(sleepRegister)) =>
             bus.last.err # Nil /\ commandRegister \notin bus.wrote)
    /\ []((caller.op = "Reset" /\ caller.pc \in {"poll", "sleep"}) =>
             bus.wrote = {sleepRegister, commandRegister})
    /\ []((Returned("Reset") /\ LastRead(statusRegister)) =>
             /\ bus.wrote = {sleepRegister, commandRegister}
             /\ caller.err = caller.waitErr
             /\ caller.err = Nil =>
                   bus.last.err = Nil /\ ~HasBit(bus.last.val, Busy))

C22_Witness ==
    /\ Returned("Reset") /\ caller.err = Nil
    /\ LastReadOk(statusRegister)
    /\ caller.polled = Unsteady
    /\ bus.wrote = {sleepRegister, commandRegister}
    /\ dev = DeviceDefaults

\* The value and error GetDistance returns are those of a ReadDistance that
\* read the distance register in its last bus transaction.
FromLastRead ==
    /\ LastReadOk(distanceRegister)
    /\ caller.value = bus.last.val
    /\ caller.err = caller.healthError

\* C23: when GetDistance returns an error that is not a HealthError, the
\* value it returns is 0; a non-zero value comes only with a nil error or
\* with the HealthError of the same ReadDistance call that read it.
C23_ZeroWithHardError ==
    Returned("GetDistance") =>
        /\ (caller.err # Nil /\ ~IsHealthError(caller.err)) => caller.value = 0
        /\ caller.value # 0 =>
              /\ caller.err = Nil \/ IsHealthError(caller.err)
              /\ FromLastRead

\* This step is a distance read of GetDistance that succeeds after the
\* readiness wait found degraded health.
SoftAttempt ==
    /\ InGetDistance /\ caller.pc = "rd_word"
    /\ IsHealthError(caller.healthError)
    /\ bus'.last.err = Nil

\* C24: but for a failed count write, GetDistance returns a non-nil error
\* only once WaitTimeout has elapsed since its start; an attempt that ends
\* in a HealthError is retried like any other failed attempt, and at the
\* deadline the value is returned with the HealthError.
C24_SoftErrorRetried ==
    /\ []((Returned("GetDistance") /\ caller.err # Nil
               /\ ~LastWrite(countRegister)) =>
             caller.gdElapsed >= WaitTimeout)
    /\ [][(InGetDistance /\ ~AtCountWrite /\ th'[1].pc = "done"
               /\ th'[1].err # Nil) =>
             th'[1].gdElapsed >= WaitTimeout]_vars
    /\ [][(SoftAttempt /\ th'[1].gdElapsed < WaitTimeout) =>
             /\ th'[1].pc = "poll" /\ th'[1].frame = "Acquire"
             /\ th'[1].backoff = 1
             /\ th'[1].value = bus'.last.val
             /\ th'[1].err = caller.healthError]_vars
    /\ [][(SoftAttempt /\ th'[1].gdElapsed >= WaitTimeout) =>
             /\ th'[1].pc = "done"
             /\ th'[1].value = bus'.last.val
             /\ th'[1].err = caller.healthError]_vars

C24_Witness ==
    /\ InGetDistance /\ caller.pc = "acquire_command"
    /\ caller.err = HealthError(12) /\ caller.value = 65535
    /\ distanceRegister \in bus.reads
    /\ caller.gdElapsed = WaitTimeout - 1

\* The registers an operation reads after its readiness wait.
MeasurementRegisters(op) ==
    IF op = "ReadDistance" THEN {distanceRegister}
    ELSE {modeControlRegister, intervalRegister, velocityRegister}

\* ReadDistance or ReadVelocity has returned after a wait that found
\* degraded health and a failed read of one of its measurement registers.
FailedAfterSoftWait ==
    /\ caller.op \in {"ReadDistance", "ReadVelocity"} /\ caller.pc = "done"
    /\ IsHealthError(caller.healthError)
    /\ bus.last.kind = "read" /\ bus.last.reg \in MeasurementRegisters(caller.op)
    /\ LastFailed

\* C25: when the readiness wait of ReadDistance or ReadVelocity found
\* degraded health and a later register read of the call fails (0x8f; 0x04,
\* 0x45 or 0x09), the call returns 0 with the transport error of that read,
\* not the HealthError, and reads nothing more.
C25_TransportErrorWins ==
    /\ FailedAfterSoftWait =>
          /\ caller.value = 0
          /\ caller.err = bus.last.err /\ caller.err \in BusErrors
          /\ ~IsHealthError(caller.err)
          /\ LastRead(modeControlRegister) =>
                bus.reads \cap {intervalRegister, velocityRegister} = {}
          /\ LastRead(intervalRegister) => velocityRegister \notin bus.reads
    /\ (caller.op \in {"ReadDistance", "ReadVelocity"}
            /\ IsHealthError(caller.healthError) /\ LastFailed
            /\ bus.last.reg \in MeasurementRegisters(caller.op)) =>
          caller.pc = "done"

C25_Witness ==
    /\ FailedAfterSoftWait /\ caller.op = "ReadVelocity"
    /\ LastRead(intervalRegister)
    /\ caller.healthError = HealthError(8)
    /\ caller.value = 0 /\ caller.err = TransportError(2)

\* ------------------------------------------------------ specifications
\* One caller (the handle is exclusively owned), every public operation.
Next ==
    \/ Call(1, PrimitiveOps, Intervals)
    \/ Return(1)
    \/ setAcquisitionIntervalRead(1)
    \/ setAcquisitionIntervalWriteDefault(1)
    \/ setAcquisitionIntervalWriteInterval(1)
    \/ setAcquisitionIntervalWriteCustom(1)
    \/ setAcquisitionCount(1)
    \/ waitReadyStatusPoll(1)
    \/ waitReadyStatusSleep(1)
    \/ waitAcquisitionReadyHealth(1)
    \/ AcquireWrite(1)
    \/ ReadDistanceWord(1)
    \/ ReadVelocityControl(1)
    \/ ReadVelocityScale(1)
    \/ ReadVelocityRaw(1)
    \/ WakeStatus(1)
    \/ WakeWrite(1)
    \/ ResetWrite(1)
    \/ SleepWrite(1)

Spec == Init /\ [][Next]_vars

\* One caller of GetDistance, the retry loop over Acquire and ReadDistance.
GetDistanceStep ==
    \/ GetDistanceCount(1)
    \/ waitReadyStatusPoll(1)
    \/ waitReadyStatusSleep(1)
    \/ waitAcquisitionReadyHealth(1)
    \/ AcquireWrite(1)
    \/ ReadDistanceWord(1)

NextGetDistance ==
    \/ Call(1, {"GetDistance"}, Intervals)
    \/ Return(1)
    \/ GetDistanceStep

SpecGetDistance == Init /\ [][NextGetDistance]_vars

\* Two goroutines share the handle and set modes; the code takes no lock.
ConcurrentOps == {"SetDistanceOnlyMode", "SetDistanceAndVelocityMode"}
ConcurrentIntervals == {DefaultAcquisitionInterval, Duration(0, 1000000)}

NextConcurrent ==
    \E t \in Threads :
        \/ Call(t, ConcurrentOps, ConcurrentIntervals)
        \/ Return(t)
        \/ setAcquisitionIntervalRead(t)
        \/ setAcquisitionIntervalWriteDefault(t)
        \/ setAcquisitionIntervalWriteInterval(t)
        \/ setAcquisitionIntervalWriteCustom(t)
        \/ setAcquisitionCount(t)

SpecConcurrent == Init /\ [][NextConcurrent]_vars

\* One caller of ReadVelocity on a device whose control and interval
\* registers hold what earlier use has left in them.
VelocityScales == {0, 1, 20, defaultIntervalValue, 255}
VelocityControls == {0, customAcquisitionInterval}

InitVelocity ==
    /\ dev \in [control : VelocityControls,
                interval : VelocityScales,
                count : {0}]
    /\ th = [t \in Threads |-> IdleThread]
    /\ bus = NewHandle

NextVelocity ==
    \/ Call(1, {"ReadVelocity"}, Intervals)
    \/ Return(1)
    \/ waitReadyStatusPoll(1)
    \/ waitReadyStatusSleep(1)
    \/ waitAcquisitionReadyHealth(1)
    \/ ReadVelocityControl(1)
    \/ ReadVelocityScale(1)
    \/ ReadVelocityRaw(1)

SpecVelocity == InitVelocity /\ [][NextVelocity]_vars

\* One caller of the three mode setters, call after call, on a device
\* whose custom-interval bit is clear.
InitModes ==
    /\ dev \in [control : ModeControls,
                interval : ModeIntervalRegisters,
                count : ModeCounts]
    /\ th = [t \in Threads |-> IdleThread]
    /\ bus = NewHandle

NextModes ==
    \/ Call(1, ModeOps, Intervals)
    \/ Return(1)
    \/ setAcquisitionIntervalRead(1)
    \/ setAcquisitionIntervalWriteDefault(1)
    \/ setAcquisitionIntervalWriteInterval(1)
    \/ setAcquisitionIntervalWriteCustom(1)
    \/ setAcquisitionCount(1)

SpecModes == InitModes /\ [][NextModes]_vars
====
